---- MODULE Spec2Model ----
(***************************************************************************)
(* A model of holoviews/plotting/bokeh/plot.py: the composite plots        *)
(* (GridPlot, LayoutPlot, AdjointLayoutPlot) and the BokehPlot base class  *)
(* (push, _update_datasource, cleanup, sync_sources).                      *)
(***************************************************************************)
EXTENDS Integers, Sequences, FiniteSets, TLC

(***************************************************************************)
(* Bounds of the model.                                                    *)
(***************************************************************************)
MaxCols == 2
MaxRows == 2
MaxCells == 2
MaxKey == 2
MaxViews == 2
MaxElems == 3
MaxPush == 2
MaxBuffers == 2
MaxLen == 1
MaxSubs == 3
MaxSyncPlots == 3
MaxSyncs == 2

(***************************************************************************)
(* Parameter defaults of the plotting classes.                             *)
(***************************************************************************)
plot_size == 120
axis_offset == 50
width == 300
height == 300

VARIABLES
    composite,      \* which composite plot is under construction: "grid" or "layout"
    status,         \* "new", "built", or the exception the constructor raised
    warnings,       \* the self.warning(...) calls of the constructor, in order
    drawn,          \* self.drawn
    frame,          \* per subplot: the key of its last update_frame (0: none yet)
    calls,          \* the subplot update_frame calls made by the last update_frame
    last_key,       \* the key of the last update_frame call on the composite (0: none)
    gs,             \* GridPlot: the GridSpace's data, coord -> kind of view
    shared_xaxis,   \* GridPlot.shared_xaxis
    shared_yaxis,   \* GridPlot.shared_yaxis
    gp_subplots,    \* GridPlot.subplots: coord -> the subplot created there
    gp_plots,       \* GridPlot.handles['plots']
    lrows,          \* LayoutPlot.rows
    lcols,          \* LayoutPlot.cols
    ly,             \* LayoutPlot: the Layout's grid items, (r, c) -> AdjointLayout
    lp_subplots,    \* LayoutPlot.subplots: (r, c) -> AdjointLayoutPlot
    tabs,           \* LayoutPlot.tabs
    shared_axes,    \* LayoutPlot.shared_axes
    lp_init,        \* LayoutPlot.initialize_plot: what the call did (NoInit: not called)
    mode,           \* push: self.renderer.mode
    comm,           \* push: whether self.comm is not None
    sent,           \* push: what comm.send was called with, in order
    diffs,          \* push: the number of renderer.diff calls
    pushes,         \* push: the number of push() calls
    push_result,    \* push: how the last push() ended
    push_msg,       \* push: what renderer.diff returned to the last push()
    sent_before,    \* push: len(sent) when the last push() began
    source_data,    \* _update_datasource: source.data, column -> its values
    streaming,      \* _update_datasource: whether the streaming test held in the last call
    chunk_length,   \* _update_datasource: self.streaming[0]._chunk_length
    stream_length,  \* _update_datasource: self.streaming[0].length
    ds_prev,        \* _update_datasource: source.data when the last call began
    ds_new,         \* _update_datasource: the data of the last call
    ds_op,          \* _update_datasource: what the last call did to the source
    ds_stream,      \* _update_datasource: the arguments of the last source.stream call
    cl_parent,      \* cleanup: plot -> the plot it is a subplot of (0: none)
    cl_kind,        \* cleanup: plot -> its class
    plot_streams,   \* cleanup: plot -> plot.streams
    subscribers,    \* cleanup: stream -> the owners of stream._subscribers, in order
    registry,       \* cleanup: Callback._callbacks, key -> callback
    cb_cleaned,     \* cleanup: the callbacks whose cleanup() was called
    cleanup_root,   \* cleanup: the plot of the last cleanup() call (0: none)
    subs_before,    \* cleanup: subscribers when the last cleanup() began
    sy_plots,       \* sync_sources: plot -> what the sharing filter reads of it
    sy_source,      \* sync_sources: plot -> handles['source'] (0: no such handle)
    sy_cds,         \* sync_sources: plot -> handles['cds']
    sources,        \* sync_sources: ColumnDataSource -> its column names
    sy_prev,        \* sync_sources: sy_source when the last sync_sources began
    shared_sources, \* sync_sources: handles['shared_sources']
    syncs,          \* sync_sources: the number of calls
    doc_subplots,   \* document, set_root: plot -> the values of plot.subplots (0: None)
    document,       \* document, set_root: plot -> plot._document (0: None)
    root,           \* document, set_root: plot -> plot.root (0: None)
    doc_op          \* document, set_root: the last assignment or call

plotVars == <<composite, status, warnings, drawn, frame, calls, last_key>>
gridVars == <<gs, shared_xaxis, shared_yaxis, gp_subplots, gp_plots>>
layoutVars == <<lrows, lcols, ly, lp_subplots, tabs, shared_axes, lp_init>>
treeVars == <<plotVars, gridVars, layoutVars>>
pushVars == <<mode, comm, sent, diffs, pushes, push_result, push_msg, sent_before>>
dataVars == <<source_data, streaming, chunk_length, stream_length, ds_prev, ds_new, ds_op,
              ds_stream>>
cleanupVars == <<cl_parent, cl_kind, plot_streams, subscribers, registry, cb_cleaned,
                 cleanup_root, subs_before>>
syncVars == <<sy_plots, sy_source, sy_cds, sources, sy_prev, shared_sources, syncs>>
docVars == <<doc_subplots, document, root, doc_op>>
vars == <<treeVars, pushVars, dataVars, cleanupVars, syncVars, docVars>>

(***************************************************************************)
(* Python dicts as functions.                                              *)
(***************************************************************************)
EmptyDict == <<>>

DictSet(d, k, v) == [x \in DOMAIN d \cup {k} |-> IF x = k THEN v ELSE d[x]]

DictUpdate(d, e) == [x \in DOMAIN d \cup DOMAIN e |-> IF x \in DOMAIN e THEN e[x] ELSE d[x]]

None == <<>>

Keys == 1..MaxKey

(***************************************************************************)
(* The GridSpace handed to GridPlot.  A view is an element of a type with  *)
(* a registered plotting class, an element of a type without one, or a     *)
(* nested Layout or NdLayout.                                              *)
(***************************************************************************)
ViewKinds == {"Element", "Unregistered", "Layout", "NdLayout"}

GridCoords == (1..MaxCols) \X (1..MaxRows)

GridSpaces ==
    UNION { [ks -> ViewKinds] :
              ks \in {s \in SUBSET GridCoords : Cardinality(s) \in 1..MaxCells} }

RECURSIVE SortedSeq(_)
SortedSeq(S) ==
    IF S = {} THEN <<>>
    ELSE LET m == CHOOSE x \in S : \A y \in S : x <= y
         IN  <<m>> \o SortedSeq(S \ {m})

\* GridSpace.keys(full_grid=True): the cross product of the sorted keys of
\* the first dimension with the sorted keys of the second, first dimension
\* outermost.
FullGridKeys(ks) ==
    LET d1 == SortedSeq({k[1] : k \in ks})
        d2 == SortedSeq({k[2] : k \in ks})
    IN  [i \in 1..(Len(d1) * Len(d2)) |->
            <<d1[((i - 1) \div Len(d2)) + 1], d2[((i - 1) % Len(d2)) + 1]>>]

\* GridSpace.shape: (number of first-dimension keys, number of second-dimension keys)
Shape(ks) == <<Cardinality({k[1] : k \in ks}), Cardinality({k[2] : k \in ks})>>

\* self.cols, self.rows = layout.shape
GridCols == Shape(DOMAIN gs)[1]
GridRows == Shape(DOMAIN gs)[2]

\* r = i % self.rows ; c = i // self.rows  (i counts from 0)
CellRow(i, rows) == i % rows
CellCol(i, rows) == i \div rows

\* Store.registry[backend].get(vtype, None) is not None
Registered(kind) == kind = "Element"

\* lookup_options(view, 'plot').options: the element's own plot options
ElementOpts == [xaxis |-> "bottom", yaxis |-> "left", width |-> width, height |-> height]

\* The kwargs GridPlot._create_subplots computes for the cell at (r, c), up to
\* kwargs['show_legend'] = False.
AxesKwargs(r, c, sx, sy) ==
    LET offset == axis_offset
        k1 == IF c = 0 /\ r # 0
              THEN DictSet(DictSet(EmptyDict, "xaxis", "None"), "width", plot_size + offset)
              ELSE EmptyDict
        k2 == IF c # 0 /\ r = 0
              THEN DictSet(DictSet(k1, "yaxis", "None"), "height", plot_size + offset)
              ELSE k1
        k3 == IF c = 0 /\ r = 0
              THEN DictSet(DictSet(k2, "width", plot_size + offset), "height", plot_size + offset)
              ELSE k2
        k4 == IF r # 0 /\ c # 0
              THEN DictSet(DictSet(k3, "xaxis", "None"), "yaxis", "None")
              ELSE k3
        k5 == IF "width" \notin DOMAIN k4 \/ ~sy THEN DictSet(k4, "width", plot_size) ELSE k4
        k6 == IF "height" \notin DOMAIN k5 \/ ~sx THEN DictSet(k5, "height", plot_size) ELSE k5
        k7 == IF "border" \notin DOMAIN k6 THEN DictSet(k6, "border", 3) ELSE k6
    IN  DictSet(k7, "show_legend", FALSE)

\* A _create_subplots that leaves out the two closing tests on shared_xaxis
\* and shared_yaxis.
CellKwargs_NoSharedTest(r, c, sx, sy) == AxesKwargs(r, c, sx, sy)

\* The kwargs GridPlot._create_subplots passes to the subplot of the cell at (r, c).
CellKwargs(r, c, sx, sy) ==
    LET k8 == AxesKwargs(r, c, sx, sy)
        k9 == IF ~sx THEN DictSet(k8, "xaxis", "None") ELSE k8
    IN  IF ~sy THEN DictSet(k9, "yaxis", "None") ELSE k9

\* plotting_class(view, ..., **dict(opts, **kwargs)): the subplot of a cell
GridSubplot(r, c, sx, sy) ==
    [r |-> r, c |-> c, params |-> DictUpdate(ElementOpts, CellKwargs(r, c, sx, sy))]

\* GridPlot._create_subplots: the loop over layout.keys(full_grid=True),
\* from the i-th key (counting from 1) on, with the subplots and warnings so far.
RECURSIVE GridCreateFrom(_, _, _, _, _, _, _)
GridCreateFrom(data, keys, rows, sx, sy, i, acc) ==
    IF i > Len(keys) THEN acc
    ELSE LET coord == keys[i]
             r == CellRow(i - 1, rows)
             c == CellCol(i - 1, rows)
             view == IF coord \in DOMAIN data THEN data[coord] ELSE "None"
         IN  IF view \in {"Layout", "NdLayout"}
             THEN [acc EXCEPT !.raised = "SkipRendering"]
             ELSE IF ~Registered(view)
             THEN GridCreateFrom(data, keys, rows, sx, sy, i + 1,
                    IF view # "None"
                    THEN [acc EXCEPT !.warnings = Append(@, <<"unregistered", coord>>)]
                    ELSE acc)
             ELSE GridCreateFrom(data, keys, rows, sx, sy, i + 1,
                    [acc EXCEPT !.subplots = DictSet(@, coord, GridSubplot(r, c, sx, sy))])

\* A _create_subplots whose nested-layout test names Layout alone: an NdLayout
\* is then plotted like any other view.
GridCreateSubplots_LayoutOnly(data, rows, sx, sy) ==
    GridCreateFrom([k \in DOMAIN data |-> IF data[k] = "NdLayout" THEN "Element" ELSE data[k]],
                   FullGridKeys(DOMAIN data), rows, sx, sy, 1,
                   [subplots |-> EmptyDict, warnings |-> <<>>, raised |-> "none"])

GridCreateSubplots(data, rows, sx, sy) ==
    GridCreateFrom(data, FullGridKeys(DOMAIN data), rows, sx, sy, 1,
                   [subplots |-> EmptyDict, warnings |-> <<>>, raised |-> "none"])

\* GridPlot.__init__
GridConstruct ==
    /\ composite = "grid"
    /\ status = "new"
    /\ LET res == GridCreateSubplots(gs, GridRows, shared_xaxis, shared_yaxis)
       IN  IF res.raised # "none"
           THEN /\ status' = res.raised
                /\ warnings' = res.warnings
                /\ UNCHANGED <<gp_subplots, frame>>
           ELSE /\ status' = "built"
                /\ warnings' = res.warnings
                /\ gp_subplots' = res.subplots
                /\ frame' = [p \in DOMAIN res.subplots |-> 0]
    /\ UNCHANGED <<composite, drawn, calls, last_key, gs, shared_xaxis, shared_yaxis, gp_plots>>
    /\ UNCHANGED <<layoutVars, pushVars, dataVars, cleanupVars, syncVars, docVars>>

\* GridPlot.initialize_plot: the loop that fills plots[r][c], from the i-th key
\* of self.layout.keys(full_grid=True) on.
RECURSIVE GridPlaceFrom(_, _, _, _, _)
GridPlaceFrom(subplots, keys, rows, i, plots) ==
    IF i > Len(keys) THEN plots
    ELSE LET coord == keys[i]
             r == CellRow(i - 1, rows)
             c == CellCol(i - 1, rows)
         IN  GridPlaceFrom(subplots, keys, rows, i + 1,
                IF coord \in DOMAIN subplots
                THEN [plots EXCEPT ![r][c] = coord]
                ELSE plots)

\* self.layout of a GridPlot is the collapsed layout: it holds the cells that
\* got a subplot.
GridLayoutKeys(subplots) == FullGridKeys(DOMAIN subplots)

GridInitializePlot ==
    /\ composite = "grid"
    /\ status = "built"
    /\ ~drawn
    /\ gp_plots' = GridPlaceFrom(gp_subplots, GridLayoutKeys(gp_subplots), GridRows, 1,
                       [r \in 0..(GridRows - 1) |-> [c \in 0..(GridCols - 1) |-> None]])
    /\ drawn' = TRUE
    /\ UNCHANGED <<composite, status, warnings, frame, calls, last_key,
                   gs, shared_xaxis, shared_yaxis, gp_subplots>>
    /\ UNCHANGED <<layoutVars, pushVars, dataVars, cleanupVars, syncVars, docVars>>

\* GridPlot.update_frame: the subplot update_frame calls, in order
RECURSIVE GridUpdateCalls(_, _, _, _)
GridUpdateCalls(subplots, keys, key, i) ==
    IF i > Len(keys) THEN <<>>
    ELSE (IF keys[i] \in DOMAIN subplots THEN <<<<keys[i], key>>>> ELSE <<>>)
         \o GridUpdateCalls(subplots, keys, key, i + 1)

\* The effect of a sequence of update_frame calls on the subplots' frames
RECURSIVE ApplyCalls(_, _)
ApplyCalls(fr, cs) ==
    IF cs = <<>> THEN fr
    ELSE ApplyCalls([fr EXCEPT ![Head(cs)[1]] = Head(cs)[2]], Tail(cs))

GridUpdateFrame(key) ==
    /\ composite = "grid"
    /\ status = "built"
    /\ LET cs == GridUpdateCalls(gp_subplots, GridLayoutKeys(gp_subplots), key, 1)
       IN  /\ calls' = cs
           /\ frame' = ApplyCalls(frame, cs)
    /\ last_key' = key
    /\ UNCHANGED <<composite, status, warnings, drawn, gridVars, layoutVars>>
    /\ UNCHANGED <<pushVars, dataVars, cleanupVars, syncVars, docVars>>

(***************************************************************************)
(* The Layout handed to LayoutPlot.  Each grid position holds an           *)
(* AdjointLayout: one to three elements at the positions main, right, top. *)
(* An element is None, an Empty, an element of a type with or without a    *)
(* registered plotting class, or a container that holds no Element.        *)
(***************************************************************************)
ElementKinds == {"None", "Empty", "Element", "Unregistered", "Hollow"}

RECURSIVE SeqsUpTo(_, _)
SeqsUpTo(S, n) ==
    IF n = 0 THEN {<<>>}
    ELSE LET shorter == SeqsUpTo(S, n - 1)
         IN  shorter \cup {Append(q, x) : q \in {t \in shorter : Len(t) = n - 1}, x \in S}

AdjointLayouts == SeqsUpTo(ElementKinds, 3) \ {<<>>}

LayoutShapes ==
    {sh \in (1..MaxViews) \X (1..MaxViews) : sh[1] * sh[2] <= MaxViews}

\* self.coords = list(product(range(self.rows), range(self.cols)))
Coords(rows, cols) ==
    [i \in 1..(rows * cols) |-> <<(i - 1) \div cols, (i - 1) % cols>>]

CoordSet(rows, cols) == (0..(rows - 1)) \X (0..(cols - 1))

\* The layouts over the positions S that hold at most budget elements in all
RECURSIVE LayoutsOver(_, _)
LayoutsOver(S, budget) ==
    IF S = {} THEN {EmptyDict}
    ELSE LET x == CHOOSE y \in S : TRUE
             rest == Cardinality(S) - 1
         IN  UNION { {DictSet(l, x, v) : l \in LayoutsOver(S \ {x}, budget - Len(v))} :
                       v \in {a \in AdjointLayouts : Len(a) + rest <= budget} }

Layouts(rows, cols) == LayoutsOver(CoordSet(rows, cols), MaxElems)

\* AdjointLayoutPlot.layout_dict
layout_dict ==
    [Single |-> <<"main">>, Dual |-> <<"main", "right">>, Triple |-> <<"main", "right", "top">>]

\* layout_lens.get(len(view), 'Single')
LayoutType(view) ==
    IF Len(view) = 2 THEN "Dual" ELSE IF Len(view) = 3 THEN "Triple" ELSE "Single"

PosIndex(pos) == IF pos = "main" THEN 1 ELSE IF pos = "right" THEN 2 ELSE 3

\* layout.get(pos, None)
ViewGet(view, pos) == IF PosIndex(pos) <= Len(view) THEN view[PosIndex(pos)] ELSE "None"

\* element.traverse(lambda x: x, [Element]) is not empty
HoldsElement(kind) == kind \in {"Element", "Unregistered"}

\* LayoutPlot._create_subplots: the loop over positions, from the i-th on.
\* acc.main_plot is None until the main subplot is created.
RECURSIVE LayoutCreateFrom(_, _, _, _, _)
LayoutCreateFrom(view, rc, positions, i, acc) ==
    IF i > Len(positions) THEN acc
    ELSE LET pos == positions[i]
             element == ViewGet(view, pos)
             id == <<rc[1], rc[2], pos>>
         IN  IF element = "None" \/ ~(HoldsElement(element) \/ element = "Empty")
             THEN LayoutCreateFrom(view, rc, positions, i + 1, acc)
             ELSE IF pos # "main" /\ acc.main_plot = None
             THEN [acc EXCEPT !.raised = "AttributeError"]
             ELSE IF element = "Empty"
             THEN LayoutCreateFrom(view, rc, positions, i + 1,
                    [acc EXCEPT !.clone = @ \cup {pos},
                                !.subplots = DictSet(@, pos, None)])
             ELSE IF ~Registered(element)
             THEN LayoutCreateFrom(view, rc, positions, i + 1,
                    [acc EXCEPT !.warnings = Append(@, <<"unregistered", id>>)])
             ELSE LayoutCreateFrom(view, rc, positions, i + 1,
                    [acc EXCEPT !.clone = @ \cup {pos},
                                !.subplots = DictSet(@, pos, id),
                                !.main_plot = IF pos = "main" THEN id ELSE @])

LayoutCreateSubplots(view, rc, positions, warned) ==
    LayoutCreateFrom(view, rc, positions, 1,
        [subplots |-> EmptyDict, clone |-> {}, main_plot |-> None,
         warnings |-> warned, raised |-> "none"])

\* LayoutPlot._init_layout: the loop over self.coords, from the i-th on.
RECURSIVE InitLayoutFrom(_, _, _, _)
InitLayoutFrom(layout, coords, i, acc) ==
    IF i > Len(coords) THEN acc
    ELSE LET rc == coords[i]
             view == layout[rc]
             layout_type == LayoutType(view)
             positions == layout_dict[layout_type]
             main == ViewGet(view, "main")
         IN  IF main = "Empty" \/ main = "None"
             THEN InitLayoutFrom(layout, coords, i + 1, acc)
             ELSE IF ~(\E j \in 1..Len(view) : HoldsElement(view[j]))
             THEN InitLayoutFrom(layout, coords, i + 1,
                    [acc EXCEPT !.warnings = Append(@, <<"empty", rc>>)])
             ELSE LET res == LayoutCreateSubplots(view, rc, positions, acc.warnings)
                  IN  IF res.raised # "none"
                      THEN [acc EXCEPT !.raised = res.raised, !.warnings = res.warnings]
                      ELSE InitLayoutFrom(layout, coords, i + 1,
                             [acc EXCEPT
                                !.warnings = res.warnings,
                                !.subplots = DictSet(@, rc,
                                    [layout_type |-> layout_type,
                                     view_positions |-> positions,
                                     subplots |-> res.subplots,
                                     layout |-> res.clone])])

InitLayout_(layout, rows, cols) ==
    InitLayoutFrom(layout, Coords(rows, cols), 1,
                   [subplots |-> EmptyDict, warnings |-> <<>>, raised |-> "none"])

\* The element plots of a LayoutPlot: the non-None subplots of its AdjointLayoutPlots
LayoutElementPlots(subplots) ==
    {<<rc[1], rc[2], pos>> : rc \in DOMAIN subplots, pos \in {"main", "right", "top"}}
    \cap UNION {{subplots[rc].subplots[pos] : pos \in DOMAIN subplots[rc].subplots} :
                  rc \in DOMAIN subplots}

\* LayoutPlot.__init__
LayoutConstruct ==
    /\ composite = "layout"
    /\ status = "new"
    /\ LET res == InitLayout_(ly, lrows, lcols)
       IN  IF res.raised # "none"
           THEN /\ status' = res.raised
                /\ warnings' = res.warnings
                /\ UNCHANGED <<lp_subplots, frame>>
           ELSE /\ status' = "built"
                /\ warnings' = res.warnings
                /\ lp_subplots' = res.subplots
                /\ frame' = [p \in LayoutElementPlots(res.subplots) |-> 0]
    /\ UNCHANGED <<composite, drawn, calls, last_key, lrows, lcols, ly, gridVars>>
    /\ UNCHANGED <<tabs, shared_axes, lp_init>>
    /\ UNCHANGED <<pushVars, dataVars, cleanupVars, syncVars, docVars>>

\* AdjointLayoutPlot.update_frame: the subplot update_frame calls, in order
RECURSIVE AdjointUpdateCalls(_, _, _, _)
AdjointUpdateCalls(subplots, order, key, i) ==
    IF i > Len(order) THEN <<>>
    ELSE (IF order[i] \in DOMAIN subplots /\ subplots[order[i]] # None
          THEN <<<<subplots[order[i]], key>>>> ELSE <<>>)
         \o AdjointUpdateCalls(subplots, order, key, i + 1)

\* An update_frame that forgets the 'top' position.
AdjointUpdateFrame_NoTop(adjoint, key) ==
    AdjointUpdateCalls(adjoint.subplots, <<"main", "right">>, key, 1)

AdjointUpdateFrame(adjoint, key) ==
    AdjointUpdateCalls(adjoint.subplots, <<"main", "right", "top">>, key, 1)

\* LayoutPlot.update_frame: the loop over self.coords
RECURSIVE LayoutUpdateCalls(_, _, _, _)
LayoutUpdateCalls(subplots, coords, key, i) ==
    IF i > Len(coords) THEN <<>>
    ELSE (IF coords[i] \in DOMAIN subplots
          THEN AdjointUpdateFrame(subplots[coords[i]], key) ELSE <<>>)
         \o LayoutUpdateCalls(subplots, coords, key, i + 1)

LayoutUpdateFrame(key) ==
    /\ composite = "layout"
    /\ status = "built"
    /\ LET cs == LayoutUpdateCalls(lp_subplots, Coords(lrows, lcols), key, 1)
       IN  /\ calls' = cs
           /\ frame' = ApplyCalls(frame, cs)
    /\ last_key' = key
    /\ UNCHANGED <<composite, status, warnings, drawn, gridVars, layoutVars>>
    /\ UNCHANGED <<pushVars, dataVars, cleanupVars, syncVars, docVars>>


(***************************************************************************)
(* LayoutPlot._compute_grid and the two initialize_plot methods.  A list   *)
(* of lists is a list of references to row objects, so that two rows can   *)
(* be told from one row held twice.  The model a subplot's initialize_plot *)
(* returns is named after the subplot; empty_plot(0, 0) gives a            *)
(* placeholder, named after the position it stands for.                    *)
(***************************************************************************)
Model(id) == [kind |-> "model", of |-> id]

EmptyPlot(id) == [kind |-> "empty_plot", of |-> id]

Max(S) == CHOOSE x \in S : \A y \in S : y <= x

RECURSIVE Sum(_)
Sum(q) == IF q = <<>> THEN 0 ELSE Head(q) + Sum(Tail(q))

\* nsubplots = 1 if subplot is None else len(subplot.layout)
NSubplots(subplots, rc) ==
    IF rc \in DOMAIN subplots THEN Cardinality(subplots[rc].layout) ELSE 1

\* widths: per layout column, the max over the rows of 2 if nsubplots > 1 else 1
Widths(subplots, rows, cols) ==
    [j \in 1..cols |->
        Max({IF NSubplots(subplots, <<r, j - 1>>) > 1 THEN 2 ELSE 1 : r \in 0..(rows - 1)})]

\* heights: per layout row, the max over the columns of 2 if nsubplots > 2 else 1
Heights(subplots, rows, cols) ==
    [i \in 1..rows |->
        Max({IF NSubplots(subplots, <<i - 1, c>>) > 2 THEN 2 ELSE 1 : c \in 0..(cols - 1)})]

\* [[None]*cols for _ in range(rows)]: every row a list of its own
FreshRows(nrows, ncols) ==
    [rows |-> [r \in 0..(nrows - 1) |-> r],
     cells |-> [r \in 0..(nrows - 1) |-> [c \in 0..(ncols - 1) |-> None]]]

\* [[None]*cols]*rows: one row list, held rows times.
ComputeGrid_OneRowObject(subplots, rows, cols) ==
    LET nrows == Sum(Heights(subplots, rows, cols))
        ncols == Sum(Widths(subplots, rows, cols))
    IN  [rows |-> [r \in 0..(nrows - 1) |-> 0],
         cells |-> [r \in {0} |-> [c \in 0..(ncols - 1) |-> None]]]

\* LayoutPlot._compute_grid
ComputeGrid(subplots, rows, cols) ==
    FreshRows(Sum(Heights(subplots, rows, cols)), Sum(Widths(subplots, rows, cols)))

\* AdjointLayoutPlot.initialize_plot: the loop over self.view_positions, from
\* the i-th position on.  acc.args keeps the plots each subplot was
\* initialized with.
RECURSIVE AdjointInitFrom(_, _, _, _, _, _)
AdjointInitFrom(subplots, rc, positions, plots, i, acc) ==
    IF i > Len(positions) THEN acc
    ELSE LET pos == positions[i]
             id == <<rc[1], rc[2], pos>>
             subplot == IF pos \in DOMAIN subplots THEN subplots[pos] ELSE None
         IN  IF subplot = None
             THEN AdjointInitFrom(subplots, rc, positions, plots, i + 1,
                    [acc EXCEPT !.adjoined = Append(@, EmptyPlot(id))])
             ELSE LET passed_plots == plots \o acc.adjoined
                  IN  AdjointInitFrom(subplots, rc, positions, plots, i + 1,
                        [acc EXCEPT !.adjoined = Append(@, Model(subplot)),
                                    !.args = DictSet(@, subplot, passed_plots)])

\* An initialize_plot that hands every subplot the caller's plots alone.
AdjointInitializePlot_CallerPlotsOnly(adjoint, rc, plots) ==
    LET res == AdjointInitFrom(adjoint.subplots, rc, adjoint.view_positions,
                   IF plots = None THEN <<>> ELSE plots, 1,
                   [adjoined |-> <<>>, args |-> EmptyDict])
    IN  [adjoined |-> res.adjoined,
         args |-> [p \in DOMAIN res.args |-> IF plots = None THEN <<>> ELSE plots],
         plots |-> plots,
         drawn |-> TRUE]

\* AdjointLayoutPlot.initialize_plot(ranges, plots): the list it returns, the
\* plots its subplots were initialized with, the caller's list after the
\* call, and self.drawn
AdjointInitializePlot(adjoint, rc, plots) ==
    LET res == AdjointInitFrom(adjoint.subplots, rc, adjoint.view_positions,
                   IF plots = None THEN <<>> ELSE plots, 1,
                   [adjoined |-> <<>>, args |-> EmptyDict])
    IN  [adjoined |-> IF res.adjoined = <<>> THEN <<None>> ELSE res.adjoined,
         args |-> res.args,
         plots |-> plots,
         drawn |-> TRUE]

\* A Python list index: a negative index counts from the end
PyIndex(i, n) == IF i < 0 THEN i + n ELSE i

\* plot_grid[w.r][w.c] = w.model, with the cell it lands in; IndexError when
\* an index is out of range
GridWrite(st, w) ==
    LET nrows == Cardinality(DOMAIN st.grid.rows)
        ri == PyIndex(w.r, nrows)
    IN  IF ri \notin DOMAIN st.grid.rows
        THEN [st EXCEPT !.raised = "IndexError"]
        ELSE LET row == st.grid.rows[ri]
                 ci == PyIndex(w.c, Cardinality(DOMAIN st.grid.cells[row]))
             IN  IF ci \notin DOMAIN st.grid.cells[row]
                 THEN [st EXCEPT !.raised = "IndexError"]
                 ELSE [st EXCEPT !.grid.cells[row][ci] = w.model,
                                 !.writes = Append(@, [r |-> w.r, c |-> w.c, row |-> row,
                                                       at_r |-> ri, at_c |-> ci,
                                                       model |-> w.model])]

RECURSIVE GridWrites(_, _)
GridWrites(st, ws) ==
    IF ws = <<>> \/ st.raised # "none" THEN st
    ELSE GridWrites(GridWrite(st, Head(ws)), Tail(ws))

\* "Situate plot in overall grid": the assignments for the list an
\* AdjointLayoutPlot returned, in order
Situate(r, c, r_offset, c_offset, col_padded, adjoined) ==
    LET nsubplots == Len(adjoined)
        top == IF nsubplots > 2
               THEN <<[r |-> r + r_offset - 1, c |-> c + c_offset - 1, model |-> adjoined[3]]>>
               ELSE <<>>
    IN  top \o
        (IF nsubplots > 1
         THEN <<[r |-> r + r_offset, c |-> c + c_offset - 1, model |-> adjoined[1]],
                [r |-> r + r_offset, c |-> c + c_offset, model |-> adjoined[2]]>>
         ELSE <<[r |-> r + r_offset,
                 c |-> c + c_offset - (IF col_padded THEN 1 ELSE 0),
                 model |-> adjoined[1]]>>)

\* LayoutPlot.initialize_plot: the body of the two loops for the position rc
LayoutInitStep(subplots, tabbed, shared, rc, st) ==
    LET r == rc[1]
        c == rc[2]
        row_padded == \E k \in DOMAIN subplots :
                          k[1] = r /\ Cardinality(subplots[k].layout) > 2
        st1 == IF c = 0 /\ row_padded THEN [st EXCEPT !.r_offset = @ + 1] ELSE st
        col_padded == \E k \in DOMAIN subplots :
                          k[2] = c /\ Cardinality(subplots[k].layout) > 1
        st2 == IF col_padded THEN [st1 EXCEPT !.col_offsets[r] = @ + 1] ELSE st1
        c_offset == st2.col_offsets[r]
    IN  IF rc \notin DOMAIN subplots THEN st2
        ELSE LET shared_plots == IF shared THEN st2.passed_plots ELSE None
                 res == AdjointInitializePlot(subplots[rc], rc, shared_plots)
                 st3 == [st2 EXCEPT !.returns = DictSet(@, rc, res.adjoined),
                                    !.args = DictUpdate(@, res.args),
                                    !.callers = DictSet(@, rc, [before |-> shared_plots,
                                                                after |-> res.plots]),
                                    !.adjoint_drawn = @ \cup {rc}]
             IN  IF tabbed
                 THEN IF "main" \notin DOMAIN subplots[rc].subplots
                      THEN [st3 EXCEPT !.raised = "KeyError"]
                      ELSE [st3 EXCEPT !.tab_plots = Append(@, rc)]
                 ELSE LET st4 == GridWrites(st3, Situate(r, c, st3.r_offset, c_offset,
                                                         col_padded, res.adjoined))
                      IN  IF st4.raised # "none" THEN st4
                          ELSE [st4 EXCEPT !.passed_plots = Append(@, res.adjoined[1])]

\* The loops over range(self.rows) and range(self.cols), from the i-th position on
RECURSIVE LayoutInitFrom(_, _, _, _, _, _)
LayoutInitFrom(subplots, tabbed, shared, coords, i, st) ==
    IF i > Len(coords) \/ st.raised # "none" THEN st
    ELSE LayoutInitFrom(subplots, tabbed, shared, coords, i + 1,
                        LayoutInitStep(subplots, tabbed, shared, coords[i], st))

\* The state of initialize_plot before its loops; plots is None
LayoutInitStart(subplots, rows, cols) ==
    [grid0 |-> ComputeGrid(subplots, rows, cols),
     grid |-> ComputeGrid(subplots, rows, cols),
     passed_plots |-> <<>>,
     r_offset |-> 0,
     col_offsets |-> [r \in 0..(rows - 1) |-> 0],
     tab_plots |-> <<>>,
     writes |-> <<>>,
     returns |-> EmptyDict,
     args |-> EmptyDict,
     callers |-> EmptyDict,
     adjoint_drawn |-> {},
     raised |-> "none"]

NoInit == [raised |-> "not called"]

\* LayoutPlot.initialize_plot(); the layout model is then built from plot_grid
\* or tab_plots by gridplot or Tabs
LayoutInitializePlot ==
    /\ composite = "layout"
    /\ status = "built"
    /\ ~drawn
    /\ lp_init = NoInit
    /\ LET res == LayoutInitFrom(lp_subplots, tabs, shared_axes, Coords(lrows, lcols), 1,
                                 LayoutInitStart(lp_subplots, lrows, lcols))
       IN  /\ lp_init' = res
           /\ drawn' = (res.raised = "none")
    /\ UNCHANGED <<composite, status, warnings, frame, calls, last_key>>
    /\ UNCHANGED <<lrows, lcols, ly, lp_subplots, tabs, shared_axes, gridVars>>
    /\ UNCHANGED <<pushVars, dataVars, cleanupVars, syncVars, docVars>>

(***************************************************************************)
(* BokehPlot.push                                                          *)
(***************************************************************************)
Modes == {"default", "server"}

BufferIds == {1, 2}

\* The diff messages of the renderer: header, metadata and content are those
\* of message id, buffers is a list of (header, payload) pairs.
Messages ==
    {[none |-> FALSE, id |-> i, buffers |-> b] :
        i \in {1, 2}, b \in SeqsUpTo(BufferIds, MaxBuffers)}

NoMessage == [none |-> TRUE, id |-> 0, buffers |-> <<>>]

\* comm.send(data): one call, with what it carries
Send(field, val) == [field |-> field, val |-> val]

\* for header, payload in msg.buffers: send(json.dumps(header)); send(buffers=[payload])
RECURSIVE BufferSends(_)
BufferSends(buffers) ==
    IF buffers = <<>> THEN <<>>
    ELSE <<Send("json(buffer header)", Head(buffers)), Send("buffers", Head(buffers))>>
         \o BufferSends(Tail(buffers))

\* A push that sends every payload ahead of its header.
PushSends_PayloadFirst(msg) ==
    <<Send("header_json", msg.id), Send("metadata_json", msg.id), Send("content_json", msg.id)>>
    \o [i \in 1..(2 * Len(msg.buffers)) |->
          IF i % 2 = 1 THEN Send("buffers", msg.buffers[(i + 1) \div 2])
          ELSE Send("json(buffer header)", msg.buffers[i \div 2])]

\* The comm.send calls of one push() whose diff is msg
PushSends(msg) ==
    <<Send("header_json", msg.id), Send("metadata_json", msg.id), Send("content_json", msg.id)>>
    \o BufferSends(msg.buffers)

\* A push that looks for the comm before it looks at the mode.
PushGuard_CommFirst(m, c) ==
    IF ~c THEN "raise" ELSE IF m = "server" THEN "return" ELSE "diff"

\* The two tests push() makes before it computes a diff
PushGuard(m, c) ==
    IF m = "server" THEN "return" ELSE IF ~c THEN "raise" ELSE "diff"

\* BokehPlot.push; msg is what self.renderer.diff(self, binary=True) would return
Push(msg) ==
    /\ pushes < MaxPush
    /\ pushes' = pushes + 1
    /\ sent_before' = Len(sent)
    /\ LET g == PushGuard(mode, comm)
       IN  IF g = "return"
           THEN /\ push_result' = "returned"
                /\ push_msg' = NoMessage
                /\ UNCHANGED <<sent, diffs>>
           ELSE IF g = "raise"
           THEN /\ push_result' = "raised"
                /\ push_msg' = NoMessage
                /\ UNCHANGED <<sent, diffs>>
           ELSE /\ diffs' = diffs + 1
                /\ push_msg' = msg
                /\ push_result' = "returned"
                /\ sent' = IF msg.none THEN sent ELSE sent \o PushSends(msg)
    /\ UNCHANGED <<mode, comm, treeVars, dataVars, cleanupVars, syncVars, docVars>>

(***************************************************************************)
(* BokehPlot._update_datasource                                            *)
(*                                                                         *)
(* A column is known by its length and by whether it is a list or a numpy  *)
(* array (the two types the length test of the method looks at) or some    *)
(* other sized container, such as a tuple.                                 *)
(***************************************************************************)
ColumnNames == {"x", "y"}

ColumnValues == [len : 0..MaxLen, list : BOOLEAN]

Uniform(d) == \A j, k \in DOMAIN d : d[j].len = d[k].len

\* The data of a frame, or of a new source: columns of one length
DataDicts == {d \in UNION {[cs -> ColumnValues] : cs \in SUBSET ColumnNames} : Uniform(d)}

\* [len(v) for v in d.values() if isinstance(v, (list, np.ndarray))]; which
\* length comes first follows the iteration order of the dict, so [0] of the
\* list is any of them.
ListLengths(d) == {d[k].len : k \in {c \in DOMAIN d : d[c].list}}

\* [k for k in source.data if k not in data]
Untouched(src, data) == DOMAIN src \ DOMAIN data

\* The outcomes of the test that chooses between source.data = data and
\* source.data.update(data)
Replaces(src, data) ==
    IF Untouched(src, data) = {} \/ ListLengths(src) = {} \/ ListLengths(data) = {}
    THEN {FALSE}
    ELSE {cl # nl : cl \in ListLengths(src), nl \in ListLengths(data)}

\* all(len(v) == 0 for v in data.values())
Empty(data) == \A k \in DOMAIN data : data[k].len = 0

Min(a, b) == IF a <= b THEN a ELSE b

\* {k: v[-stream._chunk_length:] for k, v in data.items()}
Chunk(data, chunk) ==
    [k \in DOMAIN data |->
        [data[k] EXCEPT !.len = IF chunk = 0 THEN @ ELSE Min(@, chunk)]]

\* ColumnDataSource.stream(new_data, rollover): appends to every column and
\* keeps the last rollover values; the columns of new_data must be those of
\* the source.
StreamInto(src, data, rollover) ==
    IF DOMAIN data # DOMAIN src THEN src
    ELSE [k \in DOMAIN src |-> [src[k] EXCEPT !.len = Min(@ + data[k].len, rollover)]]

NoStream == [data |-> EmptyDict, rollover |-> 0]

\* _update_datasource(source, data); st says whether the plot has a streaming
\* stream whose data is the current frame's data and _stream_data is set.
UpdateDatasource(data, st) ==
    /\ ds_prev' = source_data
    /\ ds_new' = data
    /\ streaming' = st
    /\ IF st /\ ~Empty(data)
       THEN \E triggering \in BOOLEAN :
               IF triggering
               THEN /\ ds_op' = "stream"
                    /\ ds_stream' = [data |-> Chunk(data, chunk_length),
                                     rollover |-> stream_length]
                    /\ source_data' =
                          StreamInto(source_data, Chunk(data, chunk_length), stream_length)
               ELSE /\ ds_op' = "none"
                    /\ ds_stream' = NoStream
                    /\ UNCHANGED source_data
       ELSE \E replace \in Replaces(source_data, data) :
               /\ ds_op' = IF replace THEN "replace" ELSE "merge"
               /\ ds_stream' = NoStream
               /\ source_data' = IF replace THEN data ELSE DictUpdate(source_data, data)
    /\ UNCHANGED <<chunk_length, stream_length>>
    /\ UNCHANGED <<treeVars, pushVars, cleanupVars, syncVars, docVars>>

(***************************************************************************)
(* BokehPlot.cleanup                                                       *)
(*                                                                         *)
(* Three plots: plot 1 is a composite plot, plot 2 its subplot, plot 3 a   *)
(* subplot of plot 1 or of plot 2.  Owner 0 is an object that is no plot.  *)
(***************************************************************************)
CleanupPlots == {1, 2, 3}
StreamIds == {1, 2}
Owners == {0, 1, 3}

\* isinstance(plot, (GenericCompositePlot, GenericElementPlot, GenericOverlayPlot))
HasStreams(kind) == kind \in {"composite", "element", "overlay"}

\* isinstance(plot, GenericElementPlot); GenericOverlayPlot is one
IsElementPlot(kind) == kind \in {"element", "overlay"}

\* plot.callbacks
PlotCallbacks(p, kind) ==
    IF IsElementPlot(kind) THEN <<[plot |-> p, n |-> 1], [plot |-> p, n |-> 2]>> ELSE <<>>

\* self.traverse(lambda x: x, [BokehPlot]): the plot and, depth first, its subplots
RECURSIVE Traverse(_, _)
RECURSIVE TraverseAll(_, _)
Traverse(parent, p) ==
    <<p>> \o TraverseAll(parent, SortedSeq({q \in DOMAIN parent : parent[q] = p}))
TraverseAll(parent, ps) ==
    IF ps = <<>> THEN <<>> ELSE Traverse(parent, Head(ps)) \o TraverseAll(parent, Tail(ps))

Range(q) == {q[i] : i \in 1..Len(q)}

\* [(p, subscriber) for p, subscriber in stream._subscribers
\*  if get_method_owner(subscriber) not in plots]
RECURSIVE KeepOutside(_, _)
KeepOutside(subs, plots) ==
    IF subs = <<>> THEN <<>>
    ELSE (IF Head(subs) \notin plots THEN <<Head(subs)>> ELSE <<>>)
         \o KeepOutside(Tail(subs), plots)

\* A cleanup that drops the subscribers of the plot at hand instead of those of
\* every plot of the tree.
FilterSubscribers_OwnPlotOnly(subs, plot, plots) == KeepOutside(subs, {plot})

\* The new stream._subscribers, in the loop body for plot, plots being the tree
FilterSubscribers(subs, plot, plots) == KeepOutside(subs, plots)

\* {k: cb for k, cb in callback._callbacks.items() if cb is not callback}
Unregister(reg, callback) ==
    [k \in {j \in DOMAIN reg : reg[j] # callback} |-> reg[k]]

\* for callback in plot.callbacks: ... , from the i-th callback on
RECURSIVE CleanCallbacks(_, _, _)
CleanCallbacks(cbs, i, st) ==
    IF i > Len(cbs) THEN st
    ELSE CleanCallbacks(cbs, i + 1,
            [st EXCEPT !.registry = Unregister(@, cbs[i]),
                       !.cleaned = @ \cup {cbs[i]}])

\* The body of the loop over plots, for one plot
CleanPlot(p, plots, kind, pstreams, st) ==
    IF ~HasStreams(kind[p]) THEN st
    ELSE LET filtered ==
               [st EXCEPT !.subscribers =
                   [s \in DOMAIN @ |->
                       IF s \in pstreams[p] THEN FilterSubscribers(@[s], p, plots) ELSE @[s]]]
         IN  IF ~IsElementPlot(kind[p]) THEN filtered
             ELSE CleanCallbacks(PlotCallbacks(p, kind[p]), 1, filtered)

RECURSIVE CleanFrom(_, _, _, _, _)
CleanFrom(order, i, kind, pstreams, st) ==
    IF i > Len(order) THEN st
    ELSE CleanFrom(order, i + 1, kind, pstreams,
                   CleanPlot(order[i], Range(order), kind, pstreams, st))

\* plot.cleanup()
Cleanup(p) ==
    /\ LET res == CleanFrom(Traverse(cl_parent, p), 1, cl_kind, plot_streams,
                     [subscribers |-> subscribers, registry |-> registry,
                      cleaned |-> cb_cleaned])
       IN  /\ subscribers' = res.subscribers
           /\ registry' = res.registry
           /\ cb_cleaned' = res.cleaned
    /\ subs_before' = subscribers
    /\ cleanup_root' = p
    /\ UNCHANGED <<cl_parent, cl_kind, plot_streams>>
    /\ UNCHANGED <<treeVars, pushVars, dataVars, syncVars, docVars>>

(***************************************************************************)
(* BokehPlot.sync_sources                                                  *)
(*                                                                         *)
(* The plots below the plot that syncs.  Data object 0 stands for a        *)
(* current_frame of None, 3 is a numpy array, 1 and 2 are other objects.   *)
(* Source i starts with the columns 0 and i.                               *)
(***************************************************************************)
SyncPlots == 1..MaxSyncPlots

IsArray(d) == d = 3

PlotProfiles ==
    {pr \in [shared_datasource : BOOLEAN, data : 0..3, has_source : BOOLEAN,
             glyph_renderer : BOOLEAN] :
        \/ pr.shared_datasource /\ pr.has_source /\ pr.glyph_renderer
        \/ /\ pr.data = 1
           /\ Cardinality({b \in {1, 2, 3} :
                 \/ b = 1 /\ ~pr.shared_datasource
                 \/ b = 2 /\ ~pr.has_source
                 \/ b = 3 /\ ~pr.glyph_renderer}) = 1}

\* filter_fn
FilterFn(pr) ==
    pr.shared_datasource /\ pr.data # 0 /\ ~IsArray(pr.data) /\ pr.has_source

\* The members of the group of data object d
Group(plots, d) == {p \in DOMAIN plots : FilterFn(plots[p]) /\ plots[p].data = d}

\* A sync_sources that builds the shared source from the group's first plot alone.
SourceData_FirstOnly(group, src, cols) ==
    cols[src[CHOOSE p \in group : \A q \in group : p <= q]]

\* source_data.update(plot.handles['source'].data) over the group
SourceData(group, src, cols) == UNION {cols[src[p]] : p \in group}

\* The loop over the groups, in the order of the sorted data ids
RECURSIVE SyncFrom(_, _, _, _)
SyncFrom(plots, ds, i, st) ==
    IF i > Len(ds) THEN st
    ELSE LET group == Group(plots, ds[i])
             new_source == Cardinality(DOMAIN st.sources) + 1
         IN  IF Cardinality(group) > 1
             THEN SyncFrom(plots, ds, i + 1,
                    [source |-> [p \in DOMAIN st.source |->
                                   IF p \in group /\ plots[p].glyph_renderer
                                   THEN new_source ELSE st.source[p]],
                     cds |-> [p \in DOMAIN st.cds |->
                                   IF p \in group /\ plots[p].glyph_renderer
                                   THEN new_source ELSE st.cds[p]],
                     sources |-> DictSet(st.sources, new_source,
                                         SourceData(group, st.source, st.sources)),
                     shared |-> Append(st.shared, new_source)])
             ELSE SyncFrom(plots, ds, i + 1, st)

SyncSources ==
    /\ syncs < MaxSyncs
    /\ syncs' = syncs + 1
    /\ sy_prev' = sy_source
    /\ LET res == SyncFrom(sy_plots, SortedSeq({sy_plots[p].data : p \in DOMAIN sy_plots}), 1,
                     [source |-> sy_source, cds |-> sy_cds, sources |-> sources,
                      shared |-> <<>>])
       IN  /\ sy_source' = res.source
           /\ sy_cds' = res.cds
           /\ sources' = res.sources
           /\ shared_sources' = res.shared
    /\ UNCHANGED sy_plots
    /\ UNCHANGED <<treeVars, pushVars, dataVars, cleanupVars, docVars>>

(***************************************************************************)
(* BokehPlot.document and BokehPlot.set_root                               *)
(*                                                                         *)
(* Three plots: plot 1 is the top plot, plot 2 its subplot, plot 3 a       *)
(* subplot of plot 1 or of plot 2.  A subplots dict may hold a None value, *)
(* written 0.  Documents and roots are 1 and 2, and 0 for None.            *)
(***************************************************************************)
DocPlots == {1, 2, 3}
Documents == {1, 2}
Roots == {1, 2}

\* plot.document = doc: the setter on plot p, and its loop over self.subplots.values()
RECURSIVE SetDocument(_, _, _, _)
RECURSIVE SetDocumentOver(_, _, _, _)
SetDocument(subplots, p, doc, docs) ==
    LET own == [docs EXCEPT ![p] = doc]
    IN  IF subplots[p] # <<>> THEN SetDocumentOver(subplots, subplots[p], doc, own) ELSE own

\* A setter that stores the document on its subplots without going through
\* their setters.
SetDocumentOver_OwnSubplotsOnly(subplots, entries, doc, docs) ==
    [q \in DOMAIN docs |->
        IF \E i \in 1..Len(entries) : entries[i] = q THEN doc ELSE docs[q]]

SetDocumentOver(subplots, entries, doc, docs) ==
    IF entries = <<>> THEN docs
    ELSE SetDocumentOver(subplots, Tail(entries), doc,
            IF Head(entries) # 0
            THEN SetDocument(subplots, Head(entries), doc, docs)
            ELSE docs)

\* self.traverse(lambda x: x): the plot and, depth first, the plots of its
\* subplots that are not None
RECURSIVE TraversePlots(_, _)
RECURSIVE TraverseSubplots(_, _)
TraversePlots(subplots, p) == <<p>> \o TraverseSubplots(subplots, subplots[p])
TraverseSubplots(subplots, entries) ==
    IF entries = <<>> THEN <<>>
    ELSE (IF Head(entries) # 0 THEN TraversePlots(subplots, Head(entries)) ELSE <<>>)
         \o TraverseSubplots(subplots, Tail(entries))

\* for plot in self.traverse(lambda x: x): plot.root = root
RECURSIVE SetRootOver(_, _, _)
SetRootOver(order, r, roots) ==
    IF order = <<>> THEN roots
    ELSE SetRootOver(Tail(order), r, [roots EXCEPT ![Head(order)] = r])

\* plot.document = doc on plot p
AssignDocument(p, doc) ==
    /\ document' = SetDocument(doc_subplots, p, doc, document)
    /\ doc_op' = [kind |-> "document", plot |-> p, val |-> doc]
    /\ UNCHANGED <<doc_subplots, root>>
    /\ UNCHANGED <<treeVars, pushVars, dataVars, cleanupVars, syncVars>>

\* p.set_root(r)
SetRoot(p, r) ==
    /\ root' = SetRootOver(TraversePlots(doc_subplots, p), r, root)
    /\ doc_op' = [kind |-> "root", plot |-> p, val |-> r]
    /\ UNCHANGED <<doc_subplots, document>>
    /\ UNCHANGED <<treeVars, pushVars, dataVars, cleanupVars, syncVars>>

(***************************************************************************)
(* The specifications: one per part of the module.  Each starts the other  *)
(* parts idle and leaves them alone.                                       *)
(***************************************************************************)
PlotIdle ==
    /\ status = "new"
    /\ warnings = <<>>
    /\ drawn = FALSE
    /\ frame = EmptyDict
    /\ calls = <<>>
    /\ last_key = 0

GridIdle ==
    /\ gs = EmptyDict
    /\ shared_xaxis = FALSE
    /\ shared_yaxis = FALSE
    /\ gp_subplots = EmptyDict
    /\ gp_plots = <<>>

LayoutIdle ==
    /\ lrows = 0
    /\ lcols = 0
    /\ ly = EmptyDict
    /\ lp_subplots = EmptyDict
    /\ tabs = FALSE
    /\ shared_axes = FALSE
    /\ lp_init = NoInit

TreeIdle == composite = "none" /\ PlotIdle /\ GridIdle /\ LayoutIdle

PushIdle ==
    /\ mode = "default"
    /\ comm = FALSE
    /\ sent = <<>>
    /\ diffs = 0
    /\ pushes = 0
    /\ push_result = "none"
    /\ push_msg = NoMessage
    /\ sent_before = 0

DataIdle ==
    /\ source_data = EmptyDict
    /\ streaming = FALSE
    /\ chunk_length = 0
    /\ stream_length = 0
    /\ ds_prev = EmptyDict
    /\ ds_new = EmptyDict
    /\ ds_op = "none"
    /\ ds_stream = NoStream

CleanupIdle ==
    /\ cl_parent = <<>>
    /\ cl_kind = <<>>
    /\ plot_streams = <<>>
    /\ subscribers = <<>>
    /\ registry = EmptyDict
    /\ cb_cleaned = {}
    /\ cleanup_root = 0
    /\ subs_before = <<>>

DocIdle ==
    /\ doc_subplots = <<>>
    /\ document = <<>>
    /\ root = <<>>
    /\ doc_op = [kind |-> "none", plot |-> 0, val |-> 0]

SyncIdle ==
    /\ sy_plots = <<>>
    /\ sy_source = <<>>
    /\ sy_cds = <<>>
    /\ sources = <<>>
    /\ sy_prev = <<>>
    /\ shared_sources = <<>>
    /\ syncs = 0

\* A GridPlot about to be constructed over a GridSpace
InitGrid ==
    /\ composite = "grid"
    /\ PlotIdle
    /\ gs \in GridSpaces
    /\ shared_xaxis \in BOOLEAN
    /\ shared_yaxis \in BOOLEAN
    /\ gp_subplots = EmptyDict
    /\ gp_plots = <<>>
    /\ LayoutIdle

\* A LayoutPlot about to be constructed over a Layout
InitLayout ==
    /\ composite = "layout"
    /\ PlotIdle
    /\ GridIdle
    /\ \E sh \in LayoutShapes :
          /\ lrows = sh[1]
          /\ lcols = sh[2]
          /\ ly \in Layouts(sh[1], sh[2])
    /\ lp_subplots = EmptyDict
    /\ tabs \in BOOLEAN
    /\ shared_axes \in BOOLEAN
    /\ lp_init = NoInit

Init ==
    /\ InitGrid \/ InitLayout
    /\ PushIdle /\ DataIdle /\ CleanupIdle /\ SyncIdle /\ DocIdle

Next ==
    \/ GridConstruct
    \/ GridInitializePlot
    \/ \E key \in Keys : GridUpdateFrame(key)
    \/ LayoutConstruct
    \/ LayoutInitializePlot
    \/ \E key \in Keys : LayoutUpdateFrame(key)

Spec == Init /\ [][Next]_vars

InitPush ==
    /\ mode \in Modes
    /\ comm \in BOOLEAN
    /\ sent = <<>>
    /\ diffs = 0
    /\ pushes = 0
    /\ push_result = "none"
    /\ push_msg = NoMessage
    /\ sent_before = 0
    /\ TreeIdle /\ DataIdle /\ CleanupIdle /\ SyncIdle /\ DocIdle

NextPush == \E msg \in Messages \cup {NoMessage} : Push(msg)

SpecPush == InitPush /\ [][NextPush]_vars

\* A source as _init_datasource leaves it: columns of one length
InitData ==
    /\ source_data \in DataDicts
    /\ streaming = FALSE
    /\ chunk_length \in 0..MaxLen
    /\ stream_length \in 1..MaxLen
    /\ ds_prev = EmptyDict
    /\ ds_new = EmptyDict
    /\ ds_op = "none"
    /\ ds_stream = NoStream
    /\ TreeIdle /\ PushIdle /\ CleanupIdle /\ SyncIdle /\ DocIdle

NextData == \E data \in DataDicts, st \in BOOLEAN : UpdateDatasource(data, st)

SpecData == InitData /\ [][NextData]_vars

\* Every callback of a plot is registered, the first of them under two keys;
\* so is a callback of a plot outside the tree.
InitialRegistry(kind) ==
    LET cbs == UNION {Range(PlotCallbacks(p, kind[p])) : p \in CleanupPlots}
                 \cup {[plot |-> 0, n |-> 1]}
        keys == {<<cb.plot, cb.n, j>> : cb \in cbs, j \in {1, 2}}
    IN  [k \in {x \in keys : x[3] = 1 \/ x[2] = 1} |-> [plot |-> k[1], n |-> k[2]]]

InitCleanup ==
    /\ cl_parent \in {<<0, 1, 1>>, <<0, 1, 2>>}
    /\ cl_kind \in {k \in [CleanupPlots -> {"composite", "adjoint", "overlay", "element"}] :
                      /\ k[1] = "composite"
                      /\ k[2] # "composite"
                      /\ k[3] = "element"
                      /\ cl_parent[3] = 2 => k[2] # "element"}
    /\ \E a1 \in {1, 3}, a2 \in {2, 3} :
          plot_streams = [p \in CleanupPlots |->
                            (IF a1 = p THEN {1} ELSE {}) \cup (IF a2 = p THEN {2} ELSE {})]
    /\ subscribers \in {sb \in [StreamIds -> SeqsUpTo(Owners, MaxSubs)] :
                          Len(sb[1]) + Len(sb[2]) <= MaxSubs}
    /\ registry = InitialRegistry(cl_kind)
    /\ cb_cleaned = {}
    /\ cleanup_root = 0
    /\ subs_before = subscribers
    /\ TreeIdle /\ PushIdle /\ DataIdle /\ SyncIdle /\ DocIdle

NextCleanup == \E p \in CleanupPlots : Cleanup(p)

SpecCleanup == InitCleanup /\ [][NextCleanup]_vars

InitSync ==
    /\ sy_plots \in [SyncPlots -> PlotProfiles]
    /\ sy_source = [p \in SyncPlots |-> IF sy_plots[p].has_source THEN p ELSE 0]
    /\ sy_cds = sy_source
    /\ sources = [i \in SyncPlots |-> {0, i}]
    /\ sy_prev = sy_source
    /\ shared_sources = <<>>
    /\ syncs = 0
    /\ TreeIdle /\ PushIdle /\ DataIdle /\ CleanupIdle /\ DocIdle

NextSync == SyncSources

SpecSync == InitSync /\ [][NextSync]_vars

\* The subplots dicts of the tree with the given parents, with a None value in
\* the dict of plot none_at (0: in none)
SubplotsOf(parent, none_at) ==
    [p \in DocPlots |->
        (IF none_at = p THEN <<0>> ELSE <<>>)
        \o SortedSeq({q \in DocPlots : parent[q] = p})]

\* Plots as BokehPlot.__init__ leaves them: no document, no root
InitDoc ==
    /\ \E parent \in {<<0, 1, 1>>, <<0, 1, 2>>}, none_at \in {0} \cup DocPlots :
          doc_subplots = SubplotsOf(parent, none_at)
    /\ document = [p \in DocPlots |-> 0]
    /\ root = [p \in DocPlots |-> 0]
    /\ doc_op = [kind |-> "none", plot |-> 0, val |-> 0]
    /\ TreeIdle /\ PushIdle /\ DataIdle /\ CleanupIdle /\ SyncIdle

NextDoc ==
    \/ \E p \in DocPlots, doc \in Documents : AssignDocument(p, doc)
    \/ \E p \in DocPlots, r \in Roots : SetRoot(p, r)

SpecDoc == InitDoc /\ [][NextDoc]_vars

(***************************************************************************)
(* Properties of the composite plots.                                      *)
(***************************************************************************)

\* The non-None subplots of the composite plot
Subplots ==
    IF composite = "grid" THEN DOMAIN gp_subplots ELSE LayoutElementPlots(lp_subplots)

CallsTo(p) == {i \in 1..Len(calls) : calls[i][1] = p}

\* C1: one update_frame(key) on a GridPlot or a LayoutPlot calls
\* update_frame(key) exactly once on every non-None subplot and on no other
\* plot, within an AdjointLayoutPlot in the order main, right, top; so every
\* subplot's last key is the key of the last call.
C1_UpdateFrameReachesEverySubplot ==
    (status = "built" /\ last_key # 0) =>
        /\ \A p \in Subplots : Cardinality(CallsTo(p)) = 1
        /\ \A i \in 1..Len(calls) : calls[i][1] \in Subplots /\ calls[i][2] = last_key
        /\ DOMAIN frame = Subplots
        /\ \A p \in Subplots : frame[p] = last_key
        /\ composite = "layout" =>
              \A i, j \in 1..Len(calls) :
                  (i < j /\ calls[i][1][1] = calls[j][1][1] /\ calls[i][1][2] = calls[j][1][2])
                      => PosIndex(calls[i][1][3]) < PosIndex(calls[j][1][3])

\* A LayoutPlot holding a Triple AdjointLayoutPlot whose three subplots were updated
C1_Witness ==
    /\ composite = "layout"
    /\ status = "built"
    /\ last_key # 0
    /\ Len(calls) = 3
    /\ calls[3][1][3] = "top"

Nested(kind) == kind \in {"Layout", "NdLayout"}

\* C3: constructing a GridPlot over a GridSpace in which any cell holds a
\* Layout or an NdLayout raises SkipRendering and yields no GridPlot, whatever
\* the other cells hold and wherever the nested layout sits.
C3_NestedLayoutSkipsRendering ==
    (composite = "grid" /\ status # "new" /\ \E k \in DOMAIN gs : Nested(gs[k])) =>
        /\ status = "SkipRendering"
        /\ gp_subplots = EmptyDict
        /\ ~drawn

\* An NdLayout in the last cell of a grid whose first cell holds an element
C3_Witness ==
    /\ composite = "grid"
    /\ status = "SkipRendering"
    /\ \E k \in DOMAIN gs : gs[k] = "NdLayout" /\ k # FullGridKeys(DOMAIN gs)[1]
    /\ gs[FullGridKeys(DOMAIN gs)[1]] = "Element"

Warned(id) == \E i \in 1..Len(warnings) : warnings[i] = <<"unregistered", id>>

\* The adjoint positions of the layout, as <<r, c, pos>>
LayoutPositions ==
    {<<rc[1], rc[2], pos>> : rc \in DOMAIN ly, pos \in {"main", "right", "top"}}

ElementAt(id) == ViewGet(ly[<<id[1], id[2]>>], id[3])

HasSubplot(id) ==
    /\ <<id[1], id[2]>> \in DOMAIN lp_subplots
    /\ id[3] \in DOMAIN lp_subplots[<<id[1], id[2]>>].subplots
    /\ lp_subplots[<<id[1], id[2]>>].subplots[id[3]] # None

\* C4: an element whose type has no registered plotting class, at a grid cell
\* or at an adjoint position, gets a warning and no subplot, construction
\* raises nothing, and every element of a registered type still gets its
\* subplot.  Stated for grids and layouts that hold elements only.
C4_UnregisteredTypeOnlyWarns ==
    /\ (composite = "grid" /\ status # "new"
          /\ \A k \in DOMAIN gs : gs[k] \in {"Element", "Unregistered"}) =>
            /\ status = "built"
            /\ \A k \in DOMAIN gs :
                  IF gs[k] = "Unregistered"
                  THEN Warned(k) /\ k \notin DOMAIN gp_subplots
                  ELSE ~Warned(k) /\ k \in DOMAIN gp_subplots
    /\ (composite = "layout" /\ status # "new"
          /\ \A rc \in DOMAIN ly : \A j \in 1..Len(ly[rc]) :
                ly[rc][j] \in {"Element", "Unregistered"}) =>
            /\ status = "built"
            /\ \A id \in LayoutPositions :
                  /\ ElementAt(id) = "Unregistered" => Warned(id) /\ ~HasSubplot(id)
                  /\ ElementAt(id) = "Element" => ~Warned(id) /\ HasSubplot(id)

\* C9: the i-th key of the full grid is assigned row i % rows and column
\* i // rows, a bijection between the cols*rows keys and the cells, and after
\* initialize_plot handles['plots'][r][c] holds the model of the subplot of the
\* key assigned to (r, c), or None when that key has no subplot.
C9_PlotsGridFollowsAssignment ==
    (composite = "grid" /\ status = "built" /\ drawn) =>
        LET keys == FullGridKeys(DOMAIN gs)
        IN  /\ Len(keys) = GridCols * GridRows
            /\ \A r \in 0..(GridRows - 1), c \in 0..(GridCols - 1) :
                  Cardinality({i \in 1..Len(keys) :
                      CellRow(i - 1, GridRows) = r /\ CellCol(i - 1, GridRows) = c}) = 1
            /\ \A i \in 1..Len(keys) :
                  /\ keys[i] \in DOMAIN gp_subplots =>
                        /\ gp_subplots[keys[i]].r = CellRow(i - 1, GridRows)
                        /\ gp_subplots[keys[i]].c = CellCol(i - 1, GridRows)
                  /\ gp_plots[CellRow(i - 1, GridRows)][CellCol(i - 1, GridRows)] =
                        IF keys[i] \in DOMAIN gp_subplots THEN keys[i] ELSE None

\* C10: the subplot at row r, column c has xaxis=None unless shared_xaxis and
\* r = 0, yaxis=None unless shared_yaxis and c = 0, width plot_size+axis_offset
\* when shared_yaxis and c = 0 and plot_size otherwise, height
\* plot_size+axis_offset when shared_xaxis and r = 0 and plot_size otherwise,
\* whatever the element's own plot options say.
C10_SharedAxesAndSizes ==
    (composite = "grid" /\ status = "built") =>
        \A k \in DOMAIN gp_subplots :
            LET sp == gp_subplots[k]
            IN  /\ (sp.params.xaxis = "None") <=> ~(shared_xaxis /\ sp.r = 0)
                /\ (sp.params.yaxis = "None") <=> ~(shared_yaxis /\ sp.c = 0)
                /\ sp.params.width =
                      IF shared_yaxis /\ sp.c = 0 THEN plot_size + axis_offset ELSE plot_size
                /\ sp.params.height =
                      IF shared_xaxis /\ sp.r = 0 THEN plot_size + axis_offset ELSE plot_size

\* A grid with shared axes and subplots both in the first row and column and
\* off them
C10_Witness ==
    /\ composite = "grid"
    /\ status = "built"
    /\ shared_xaxis
    /\ ~shared_yaxis
    /\ \E k \in DOMAIN gp_subplots : gp_subplots[k].r = 0 /\ gp_subplots[k].c = 0
    /\ \E k \in DOMAIN gp_subplots : gp_subplots[k].r # 0 /\ gp_subplots[k].c # 0

\* What the last push() sent
Pushed == SubSeq(sent, sent_before + 1, Len(sent))

\* C5: a push() with a diff message sends, in this order and each once, the
\* header JSON, the metadata JSON, the content JSON, and then for every buffer
\* in buffer order its JSON-encoded header immediately followed by its
\* payload; a push() whose diff is None sends nothing.
C5_PushSendsInOrder ==
    (push_result = "returned" /\ PushGuard(mode, comm) = "diff") =>
        IF push_msg.none
        THEN Pushed = <<>>
        ELSE /\ Len(Pushed) = 3 + 2 * Len(push_msg.buffers)
             /\ Pushed[1] = Send("header_json", push_msg.id)
             /\ Pushed[2] = Send("metadata_json", push_msg.id)
             /\ Pushed[3] = Send("content_json", push_msg.id)
             /\ \A k \in 1..Len(push_msg.buffers) :
                   /\ Pushed[2 + 2 * k] = Send("json(buffer header)", push_msg.buffers[k])
                   /\ Pushed[3 + 2 * k] = Send("buffers", push_msg.buffers[k])

\* A second push() that sent a message of two different buffers
C5_Witness ==
    /\ pushes = 2
    /\ sent_before > 0
    /\ ~push_msg.none
    /\ Len(push_msg.buffers) = 2
    /\ push_msg.buffers[1] # push_msg.buffers[2]
    /\ Len(Pushed) = 7

\* C6: in renderer mode 'server' push() returns without computing a diff or
\* sending anything, even without a comm; in any other mode without a comm it
\* raises before any diff is computed or any message is sent.
C6_PushGuards ==
    pushes > 0 =>
        /\ mode = "server" => push_result = "returned" /\ diffs = 0 /\ sent = <<>>
        /\ (mode # "server" /\ ~comm) => push_result = "raised" /\ diffs = 0 /\ sent = <<>>

\* A push() in server mode on a plot without a comm
C6_Witness ==
    /\ mode = "server"
    /\ ~comm
    /\ pushes > 0
    /\ push_result = "returned"

(***************************************************************************)
(* Properties of _update_datasource, cleanup and sync_sources.             *)
(***************************************************************************)

\* C7: off the streaming path _update_datasource replaces source.data by the
\* new data exactly when the source has a column the new data lacks and the
\* length of the source's columns differs from that of the new columns, and
\* otherwise merges the new columns in; so a source whose columns have one
\* length keeps columns of one length when the new columns have one length.
C7_ReplaceOrMergeKeepsOneLength ==
    (ds_op \in {"replace", "merge"} /\ Uniform(ds_prev) /\ Uniform(ds_new)) =>
        /\ (ds_op = "replace") <=>
              /\ DOMAIN ds_prev \ DOMAIN ds_new # {}
              /\ \E j \in DOMAIN ds_prev, k \in DOMAIN ds_new : ds_prev[j].len # ds_new[k].len
        /\ ds_op = "replace" => source_data = ds_new
        /\ ds_op = "merge" => source_data = DictUpdate(ds_prev, ds_new)
        /\ Uniform(source_data)

\* The plots of the tree of the last cleanup()
CleanedTree == Range(Traverse(cl_parent, cleanup_root))

OutsideTree(owner) == owner \notin CleanedTree

\* C8: after cleanup() no stream attached to a composite, element or overlay
\* plot of the tree keeps a subscriber owned by a plot of the tree, the other
\* subscribers are kept in their order, and every callback of every element
\* plot of the tree has had cleanup() called and is no value of the registry.
C8_CleanupDropsTreeSubscribers ==
    cleanup_root # 0 =>
        \A p \in CleanedTree :
            /\ HasStreams(cl_kind[p]) =>
                  \A s \in plot_streams[p] :
                      /\ \A i \in 1..Len(subscribers[s]) : OutsideTree(subscribers[s][i])
                      /\ subscribers[s] = SelectSeq(subs_before[s], OutsideTree)
            /\ IsElementPlot(cl_kind[p]) =>
                  \A cb \in Range(PlotCallbacks(p, cl_kind[p])) :
                      /\ cb \in cb_cleaned
                      /\ \A k \in DOMAIN registry : registry[k] # cb

\* cleanup() of plot 2, whose subplot 3 has a stream with a subscriber of
\* plot 3 between one of plot 1 and one of no plot
C8_Witness ==
    /\ cleanup_root = 2
    /\ cl_parent[3] = 2
    /\ \E s \in plot_streams[3] :
          /\ subs_before[s] = <<1, 3, 0>>
          /\ subscribers[s] = <<1, 0>>
    /\ [plot |-> 3, n |-> 1] \in cb_cleaned

\* Plot p passes the sharing filter: it is a member of its data object's group
PassesFilter(p) == FilterFn(sy_plots[p])

\* Plot p passes the sharing filter and has a glyph renderer
Rendered(p) == PassesFilter(p) /\ sy_plots[p].glyph_renderer

SameData(p, q) == sy_plots[p].data = sy_plots[q].data

\* C2: after sync_sources two plots that pass the sharing filter, have a
\* glyph renderer and hold the same data object have one object as
\* handles['source'] and handles['cds']; it holds every column of each group
\* member's previous source; and a plot whose data object no other plot that
\* passes the sharing filter uses keeps its previous source.
C2_SyncSharesOneSource ==
    syncs > 0 =>
        /\ \A p, q \in SyncPlots :
              (p # q /\ Rendered(p) /\ Rendered(q) /\ SameData(p, q)) =>
                  /\ sy_source[p] = sy_source[q]
                  /\ sy_cds[p] = sy_source[p]
                  /\ sy_cds[q] = sy_source[p]
                  /\ \A m \in SyncPlots :
                        (PassesFilter(m) /\ SameData(m, p)) =>
                            sources[sy_prev[m]] \subseteq sources[sy_source[p]]
        /\ \A p \in SyncPlots :
              (~\E q \in SyncPlots : q # p /\ PassesFilter(q) /\ SameData(p, q)) =>
                  /\ sy_source[p] = sy_prev[p]
                  /\ sy_cds[p] = sy_prev[p]

\* Two plots that came to share a new source, next to a plot that kept its own
C2_Witness ==
    /\ syncs > 0
    /\ \E p, q, r \in SyncPlots :
          /\ p # q /\ Rendered(p) /\ Rendered(q) /\ SameData(p, q)
          /\ sy_source[p] = sy_source[q]
          /\ sy_source[p] # sy_prev[p]
          /\ sources[sy_source[p]] = {0, p, q}
          /\ Rendered(r) /\ ~SameData(p, r)
          /\ sy_source[r] = sy_prev[r]

(***************************************************************************)
(* Properties of LayoutPlot._compute_grid and of the initialize_plot       *)
(* methods.                                                                *)
(***************************************************************************)
Initialized == lp_init.raised # "not called"

\* len(subplot.layout) of the AdjointLayoutPlot at rc: the elements of its
\* adjoint layout
Elements(rc) == Cardinality(lp_subplots[rc].layout)

WideCols == {c \in 0..(lcols - 1) : \E rc \in DOMAIN lp_subplots : rc[2] = c /\ Elements(rc) > 1}

TallRows == {r \in 0..(lrows - 1) : \E rc \in DOMAIN lp_subplots : rc[1] = r /\ Elements(rc) > 2}

\* C11: _compute_grid returns a grid of None cells with, per layout column,
\* two columns when a subplot of the column has an adjoint layout of more than
\* one element and one otherwise and, per layout row, two rows when a subplot
\* of the row has an adjoint layout of more than two elements and one
\* otherwise; the rows of the grid are distinct lists.
C11_ComputeGridShape ==
    Initialized =>
        LET grid == lp_init.grid0
        IN  /\ Cardinality(DOMAIN grid.rows) = lrows + Cardinality(TallRows)
            /\ \A r \in DOMAIN grid.rows :
                  /\ Cardinality(DOMAIN grid.cells[grid.rows[r]]) = lcols + Cardinality(WideCols)
                  /\ \A c \in DOMAIN grid.cells[grid.rows[r]] : grid.cells[grid.rows[r]][c] = None
            /\ \A r1, r2 \in DOMAIN grid.rows : r1 # r2 => grid.rows[r1] # grid.rows[r2]

\* A grid of one row and three columns: a Dual next to a position without a
\* subplot
C11_Witness ==
    /\ Initialized
    /\ lcols = 2
    /\ Cardinality(DOMAIN lp_subplots) = 1
    /\ WideCols # {}
    /\ Cardinality(DOMAIN lp_init.grid0.rows) = 1
    /\ Cardinality(DOMAIN lp_init.grid0.cells[lp_init.grid0.rows[0]]) = 3

(***************************************************************************)
(* Properties of the document setter and of set_root.                      *)
(***************************************************************************)
\* The subplots of plot p that are not None
SubplotsOfPlot(p) == {doc_subplots[p][i] : i \in 1..Len(doc_subplots[p])} \ {0}

\* The plots reachable from p through non-None subplots in at most n steps
RECURSIVE ReachWithin(_, _)
ReachWithin(p, n) ==
    IF n = 0 THEN {p}
    ELSE {p} \cup UNION {ReachWithin(q, n - 1) : q \in SubplotsOfPlot(p)}

Reach(p) == ReachWithin(p, Cardinality(DocPlots))

\* The last assignment reached the plot it was made on and every plot below it
ReachedSubtree ==
    /\ doc_op.kind = "document" => \A q \in Reach(doc_op.plot) : document[q] = doc_op.val
    /\ doc_op.kind = "root" => \A q \in Reach(doc_op.plot) : root[q] = doc_op.val

\* C12 as stated: plot.document = doc reaches the plot and every plot below it
\* through non-None subplots, set_root(root) reaches every plot of the tree,
\* and after any sequence of such assignments all plots of one tree agree on
\* document and on root.
C12_TreeAgreesOnDocumentAndRoot ==
    /\ ReachedSubtree
    /\ \A p, q \in DocPlots : document[p] = document[q] /\ root[p] = root[q]

\* An assignment changes no document and no root of a plot that is not
\* reachable from the plot it is made on
OutsideUntouched ==
    \A q \in DocPlots \ Reach(doc_op'.plot) : document'[q] = document[q] /\ root'[q] = root[q]

\* After an assignment made on the top plot of the tree all plots agree on
\* what was assigned
TopAssignmentAgrees ==
    /\ (doc_op.kind = "document" /\ doc_op.plot = 1) =>
          \A p, q \in DocPlots : document[p] = document[q]
    /\ (doc_op.kind = "root" /\ doc_op.plot = 1) =>
          \A p, q \in DocPlots : root[p] = root[q]

\* C12, amended: plot.document = doc and plot.set_root(root) reach the plot
\* they are made on and every plot below it through non-None subplots, None
\* entries being skipped, and change no other plot; so after an assignment
\* made on the top plot of a tree all plots of the tree agree on what was
\* assigned.
C12_AssignmentReachesSubtree ==
    /\ [](ReachedSubtree /\ TopAssignmentAgrees)
    /\ [][OutsideUntouched]_vars

\* A document assigned on plot 2, whose subplots hold None and plot 3, after
\* another document was assigned on the top plot
C12_Witness ==
    /\ doc_op.kind = "document"
    /\ doc_op.plot = 2
    /\ doc_subplots[2] = <<0, 3>>
    /\ document[3] = doc_op.val
    /\ document[1] \notin {0, doc_op.val}

(***************************************************************************)
(* Properties of LayoutPlot.initialize_plot and of                         *)
(* AdjointLayoutPlot.initialize_plot.                                      *)
(***************************************************************************)
\* The model an AdjointLayoutPlot is to return for a position
Expected(rc, pos) ==
    LET sub == lp_subplots[rc].subplots
    IN  IF pos \in DOMAIN sub /\ sub[pos] # None
        THEN Model(sub[pos])
        ELSE EmptyPlot(<<rc[1], rc[2], pos>>)

\* C14: AdjointLayoutPlot.initialize_plot returns one entry per position of
\* its layout type, in the order main, right, top: the model of the subplot
\* there, or an empty placeholder plot where there is none; each subplot is
\* initialized with the caller's plots followed by the entries of the
\* positions before it, the caller's list is not modified, and drawn is set.
C14_AdjointInitializePlot ==
    Initialized =>
        \A rc \in DOMAIN lp_init.returns :
            LET positions == layout_dict[lp_subplots[rc].layout_type]
                adjoined == lp_init.returns[rc]
                caller == lp_init.callers[rc]
            IN  /\ Len(adjoined) = Len(positions)
                /\ Len(adjoined) =
                      (IF lp_subplots[rc].layout_type = "Single" THEN 1
                       ELSE IF lp_subplots[rc].layout_type = "Dual" THEN 2 ELSE 3)
                /\ \A i \in 1..Len(positions) :
                      /\ PosIndex(positions[i]) = i
                      /\ adjoined[i] = Expected(rc, positions[i])
                      /\ adjoined[i].kind = "model" =>
                            lp_init.args[adjoined[i].of] =
                                (IF caller.before = None THEN <<>> ELSE caller.before)
                                \o SubSeq(adjoined, 1, i - 1)
                /\ caller.after = caller.before
                /\ rc \in lp_init.adjoint_drawn

\* The second AdjointLayoutPlot of a layout with shared axes: a Dual that got
\* the first main model from its caller and handed it on to both its subplots
C14_Witness ==
    /\ Initialized
    /\ shared_axes
    /\ <<0, 1>> \in DOMAIN lp_init.returns
    /\ lp_init.callers[<<0, 1>>].before = <<Model(<<0, 0, "main">>)>>
    /\ lp_init.returns[<<0, 1>>] = <<Model(<<0, 1, "main">>), Model(<<0, 1, "right">>)>>
    /\ lp_init.args[<<0, 1, "right">>] = <<Model(<<0, 0, "main">>), Model(<<0, 1, "main">>)>>

GridRowCount == Cardinality(DOMAIN lp_init.grid0.rows)

GridColCount == Cardinality(DOMAIN lp_init.grid0.cells[lp_init.grid0.rows[0]])

\* The writes that put the main model of an AdjointLayoutPlot into the grid
MainWrites ==
    {w \in Range(lp_init.writes) : w.model.of[3] = "main"}

\* C13: in LayoutPlot.initialize_plot without tabs every model an
\* AdjointLayoutPlot returns is written into the grid of _compute_grid at a
\* row index in [0, rows) and a column index in [0, columns), never through a
\* negative index, no two models are written to one cell, the main plots of
\* one layout column land in one grid column and those of one layout row in
\* one grid row.
C13_ModelsLandInGrid ==
    (Initialized /\ ~tabs) =>
        /\ lp_init.raised = "none"
        /\ \A rc \in DOMAIN lp_init.returns :
              \A i \in 1..Len(lp_init.returns[rc]) :
                  \E k \in 1..Len(lp_init.writes) :
                      lp_init.writes[k].model = lp_init.returns[rc][i]
        /\ \A k \in 1..Len(lp_init.writes) :
              LET w == lp_init.writes[k]
              IN  /\ w.r \in 0..(GridRowCount - 1)
                  /\ w.c \in 0..(GridColCount - 1)
        /\ \A j, k \in 1..Len(lp_init.writes) :
              j # k => <<lp_init.writes[j].row, lp_init.writes[j].at_c>>
                          # <<lp_init.writes[k].row, lp_init.writes[k].at_c>>
        /\ \A v, w \in MainWrites :
              /\ v.model.of[2] = w.model.of[2] => v.at_c = w.at_c
              /\ v.model.of[1] = w.model.of[1] => v.at_r = w.at_r

(***************************************************************************)
(* Properties of the streaming path of _update_datasource.                 *)
(***************************************************************************)
\* The last n rows of every column of data
LastRows(data, n) == [k \in DOMAIN data |-> [data[k] EXCEPT !.len = Min(@, n)]]

\* C15: with a streaming stream whose data is the current frame's data,
\* _stream_data set and new data that is not empty, _update_datasource neither
\* replaces nor merges source.data: a triggering stream appends the last
\* _chunk_length rows of every column, and no others, through source.stream
\* with rollover stream.length, and otherwise the source is left unchanged.
C15_StreamingPathOnlyStreams ==
    (streaming /\ ~Empty(ds_new)) =>
        /\ ds_op \in {"stream", "none"}
        /\ ds_op = "stream" =>
              /\ ds_stream.data = LastRows(ds_new, chunk_length)
              /\ ds_stream.rollover = stream_length
        /\ ds_op = "none" => source_data = ds_prev /\ ds_stream = NoStream

====
